---- MODULE Spec2Model ----
(***************************************************************************)
(* Model of src/firebase-storage.js: the Supabase-backed storage layer.   *)
(* The remote table app_data is a sequence of wire rows; every gateway     *)
(* request (supabaseRequest) is one atomic step at the store, and the      *)
(* JavaScript that runs between two awaits is part of the step that        *)
(* delivers the response.                                                  *)
(***************************************************************************)
EXTENDS Integers, Sequences, FiniteSets, TLC

VARIABLES
    table,            \* the rows of app_data, in insertion order
    uniqueKey,        \* whether the store enforces a unique key on id
    clock,            \* Date.now()
    proc,             \* one record per task: callers and poller ticks
    failures,         \* gateway requests that failed so far
    posts,            \* POST requests issued so far
    nextVisit,        \* the next visit event a visit writer appends
    vStarted,         \* listenToNewVisits has been called
    lastVisitCount,   \* closure variable of listenToNewVisits
    visitCalls,       \* the arguments the visit callback was invoked with
    visitsAtStart,    \* the stored visits when listenToNewVisits was called
    mStarted,         \* listenToAdminMessages has been called
    lastMessageCount, \* closure variable of listenToAdminMessages
    msgCalls,         \* the arguments the message callback was invoked with
    throws,           \* callback invocations that threw so far
    calls,            \* operations started so far
    workload,         \* "conc", "seq": callers overlap or not; "bulk": appends
    appended,         \* messages returned by completed addAdminMessage calls
    log0,             \* the stored log in the initial state
    shrunk,           \* some write replaced visits by a non-extension
    mirror            \* window.DATA_CACHE and the localStorage of the page

vars == <<table, uniqueKey, clock, proc, failures, posts, nextVisit,
          vStarted, lastVisitCount, visitCalls, visitsAtStart,
          mStarted, lastMessageCount, msgCalls, throws, calls, workload,
          appended, log0, shrunk, mirror>>

-----------------------------------------------------------------------------
(* Bounds of the model *)

MaxFailures == 1
MaxCalls == 2
MaxClock == 1
MaxThrows == 1
MaxNewVisits == 2
MaxBulk == 55

(* Program constant: the log keeps the 50 most recent messages. *)
MaxMessages == 50

-----------------------------------------------------------------------------
(* JavaScript values: a tag and a payload in a field of its own per tag.  *)

JNull == [t |-> "null"]
JUndef == [t |-> "undefined"]
JBool(b) == [t |-> "bool", b |-> b]
JStr(s) == [t |-> "str", s |-> s]
JNum(n) == [t |-> "num", n |-> n]
JArr(a) == [t |-> "arr", a |-> a]
JObj(o) == [t |-> "obj", o |-> o]

(* ToBoolean *)
Truthy(v) ==
    CASE v.t = "null" -> FALSE
      [] v.t = "undefined" -> FALSE
      [] v.t = "bool" -> v.b
      [] v.t = "str" -> v.s # ""
      [] v.t = "num" -> v.n # 0
      [] OTHER -> TRUE

(* a || b *)
OrElse(v, d) == IF Truthy(v) THEN v ELSE d

(* a !== false *)
NotFalse(v) == ~(v.t = "bool" /\ v.b = FALSE)

(* o.k on a record of fields: undefined when the key is missing *)
Field(o, k) == IF k \in DOMAIN o THEN o[k] ELSE JUndef

(* v?.k on a value *)
OptField(v, k) == IF v.t = "obj" THEN Field(v.o, k) ELSE JUndef

(* the elements of an array value *)
Elems(v) == IF v.t = "arr" THEN v.a ELSE <<>>

(* Number.prototype.toString of a non-negative integer *)
Digits == <<"0", "1", "2", "3", "4", "5", "6", "7", "8", "9">>

RECURSIVE NumToString(_)
NumToString(n) ==
    IF n < 10 THEN Digits[n + 1]
    ELSE NumToString(n \div 10) \o Digits[(n % 10) + 1]

-----------------------------------------------------------------------------
(* Field Mapper *)

EmptySocial == JObj([discord |-> JStr(""), x |-> JStr("")])
EmptyMap == JObj([entries |-> <<>>])
EmptyStats == JObj([clicks |-> JArr(<<>>), visits |-> JArr(<<>>),
                    dailyVisits |-> EmptyMap])

DefaultRow ==
    [id |-> 1,
     links |-> JArr(<<>>),
     social_links |-> EmptySocial,
     admin_credentials |-> JNull,
     statistics |-> JObj([clicks |-> JArr(<<>>), visits |-> JArr(<<>>),
                          daily_visits |-> EmptyMap]),
     admin_messages |-> JArr(<<>>),
     setup_page_enabled |-> JBool(TRUE)]

DefaultDoc ==
    [links |-> JArr(<<>>),
     socialLinks |-> EmptySocial,
     adminCredentials |-> JNull,
     statistics |-> EmptyStats,
     adminMessages |-> JArr(<<>>),
     setupPageEnabled |-> JBool(TRUE)]

ToInternal(row) ==
    [links |-> OrElse(Field(row, "links"), JArr(<<>>)),
     socialLinks |-> OrElse(Field(row, "social_links"), EmptySocial),
     adminCredentials |-> OrElse(Field(row, "admin_credentials"), JNull),
     statistics |->
        JObj([clicks |-> OrElse(OptField(Field(row, "statistics"), "clicks"),
                                JArr(<<>>)),
              visits |-> OrElse(OptField(Field(row, "statistics"), "visits"),
                                JArr(<<>>)),
              dailyVisits |->
                  OrElse(OptField(Field(row, "statistics"), "daily_visits"),
                         EmptyMap)]),
     adminMessages |-> OrElse(Field(row, "admin_messages"), JArr(<<>>)),
     setupPageEnabled |-> JBool(NotFalse(Field(row, "setup_page_enabled")))]

ToWire(data) ==
    [id |-> 1,
     links |-> OrElse(Field(data, "links"), JArr(<<>>)),
     social_links |-> OrElse(Field(data, "socialLinks"), EmptySocial),
     admin_credentials |-> OrElse(Field(data, "adminCredentials"), JNull),
     statistics |->
        JObj([clicks |-> OrElse(OptField(Field(data, "statistics"), "clicks"),
                                JArr(<<>>)),
              visits |-> OrElse(OptField(Field(data, "statistics"), "visits"),
                                JArr(<<>>)),
              daily_visits |->
                  OrElse(OptField(Field(data, "statistics"), "dailyVisits"),
                         EmptyMap)]),
     admin_messages |-> OrElse(Field(data, "adminMessages"), JArr(<<>>)),
     setup_page_enabled |-> JBool(NotFalse(Field(data, "setupPageEnabled")))]

-----------------------------------------------------------------------------
(* The remote table behind supabaseRequest *)

(* GET app_data *)
StoreGetAll == table

(* GET app_data?id=eq.i *)
StoreGetById(i) == SelectSeq(table, LAMBDA r : r.id = i)

(* POST app_data: refused when the store keeps id unique and holds it *)
StoreRefusesInsert(row) ==
    uniqueKey /\ \E k \in DOMAIN table : table[k].id = row.id

StoreInsert(row) == Append(table, row)

(* PATCH app_data?id=eq.i: every matching row takes the columns sent *)
StorePatch(i, row) ==
    [k \in DOMAIN table |-> IF table[k].id = i THEN row ELSE table[k]]

(* fetch may fail, or answer with a non-2xx status: supabaseRequest throws *)
MayFail == failures < MaxFailures

-----------------------------------------------------------------------------
(* Tasks: the callers of the exported functions and the poller ticks *)

Callers == {"c1", "c2"}
VisitTicks == {"vt"}
MessageTicks == {"mt"}

(* a tick of the visit poller that starts while the previous one still
   awaits its load *)
LateTicks == {"vt2"}

Tasks == Callers \cup VisitTicks \cup MessageTicks \cup LateTicks

NoDoc == [none |-> TRUE]

(* the page without window.DATA_CACHE and without a usable localStorage *)
NoCache == [present |-> FALSE]
NoStorage == [available |-> FALSE]
NoMirror == [cache |-> NoCache, ls |-> NoStorage]

IdleTask ==
    [op |-> "idle", pc |-> "idle", arg |-> JUndef, data |-> NoDoc,
     wire |-> NoDoc, msg |-> NoDoc, ret |-> JUndef, err |-> FALSE,
     failed |-> FALSE, tbl0 |-> <<>>, posts0 |-> 0, n |-> 0, last |-> "",
     atFail |-> 0, mir0 |-> NoMirror, stats0 |-> NoDoc]

Running(t) == proc[t].pc \notin {"idle", "done"}

(* what the stored document holds; the first row is the one load reads *)
StoredLogOf(tbl) ==
    IF tbl = <<>> THEN <<>> ELSE Elems(Field(tbl[1], "admin_messages"))

StoredVisitsOf(tbl) ==
    IF tbl = <<>> THEN <<>>
    ELSE Elems(OptField(Field(tbl[1], "statistics"), "visits"))

StoredClicksOf(tbl) ==
    IF tbl = <<>> THEN <<>>
    ELSE Elems(OptField(Field(tbl[1], "statistics"), "clicks"))

StoredLog == StoredLogOf(table)
StoredVisits == StoredVisitsOf(table)

IsPrefix(s, u) == Len(s) <= Len(u) /\ SubSeq(u, 1, Len(s)) = s

(* Array.prototype.slice(-n) *)
LastN(s, n) == IF Len(s) <= n THEN s ELSE SubSeq(s, Len(s) - n + 1, Len(s))

(* Array.prototype.slice(n) *)
SliceFrom(s, n) == IF n >= Len(s) THEN <<>> ELSE SubSeq(s, n + 1, Len(s))

(* new Date().toISOString() *)
ToISOString(c) == "T" \o NumToString(c) \o "Z"

-----------------------------------------------------------------------------
(* loadDataFromSupabase *)

pollerVars == <<vStarted, lastVisitCount, visitCalls, visitsAtStart,
                mStarted, lastMessageCount, msgCalls, throws>>

(* the outcomes of one fetch: TRUE a 2xx response, FALSE a failure *)
Outcomes == IF MayFail THEN {TRUE, FALSE} ELSE {TRUE}

(* lines 227-233 *)
NewMessage(message, now) ==
    [id |-> JStr(NumToString(now)),
     text |-> Field(message, "text"),
     type |-> OrElse(Field(message, "type"), JStr("info")),
     timestamp |-> JStr(ToISOString(now)),
     active |-> JBool(NotFalse(Field(message, "active")))]

PushMessageClearsStats(data, msg) ==
    LET all == Append(Elems(OrElse(Field(data, "adminMessages"), JArr(<<>>))),
                      msg)
    IN  [data EXCEPT !.statistics = EmptyStats,
                     !.adminMessages =
            JArr(IF Len(all) > MaxMessages THEN LastN(all, MaxMessages)
                 ELSE all)]

PushMessageInFront(data, msg) ==
    LET all == <<msg>> \o Elems(OrElse(Field(data, "adminMessages"),
                                       JArr(<<>>)))
    IN  [data EXCEPT !.adminMessages =
            JArr(IF Len(all) > MaxMessages THEN LastN(all, MaxMessages)
                 ELSE all)]

PushMessageKeepsFirst(data, msg) ==
    LET all == Append(Elems(OrElse(Field(data, "adminMessages"), JArr(<<>>))),
                      msg)
    IN  [data EXCEPT !.adminMessages =
            JArr(IF Len(all) > MaxMessages THEN SubSeq(all, 1, MaxMessages)
                 ELSE all)]

(* lines 225, 235-240: push, then keep the last 50 *)
PushMessage(data, msg) ==
    LET all == Append(Elems(OrElse(Field(data, "adminMessages"), JArr(<<>>))),
                      msg)
    IN  [data EXCEPT !.adminMessages =
            JArr(IF Len(all) > MaxMessages THEN LastN(all, MaxMessages)
                 ELSE all)]

RemoveMessageKeepsMatch(data, messageId) ==
    [data EXCEPT !.adminMessages =
        JArr(SelectSeq(Elems(OrElse(Field(data, "adminMessages"), JArr(<<>>))),
                       LAMBDA m : m.id = messageId))]

(* lines 254-255: filter(msg => msg.id !== messageId) *)
RemoveMessage(data, messageId) ==
    [data EXCEPT !.adminMessages =
        JArr(SelectSeq(Elems(OrElse(Field(data, "adminMessages"), JArr(<<>>))),
                       LAMBDA m : m.id # messageId))]

(* a visit writer: data.statistics.visits.push(visit) *)
PushVisit(data, visit) ==
    [data EXCEPT !.statistics =
        JObj([data.statistics.o EXCEPT !.visits =
                JArr(Append(Elems(data.statistics.o.visits), visit))])]

(* a click writer: data.statistics.clicks.push(click) *)
PushClick(data, click) ==
    [data EXCEPT !.statistics =
        JObj([data.statistics.o EXCEPT !.clicks =
                JArr(Append(Elems(data.statistics.o.clicks), click))])]

(* saveDataToSupabase up to its first request: lines 132-147 *)
SaveCall(p, data) ==
    [p EXCEPT !.data = data, !.wire = ToWire(data), !.pc = "save_get"]

LoadSwallows(p) ==
    IF p.op \in {"vtick", "mtick"}
    THEN [p EXCEPT !.pc = "tick_resp", !.data = DefaultDoc]
    ELSE [p EXCEPT !.pc = "done", !.ret = DefaultDoc]

(* load threw (lines 123-126); the callers' catch blocks rethrow, a poller
   tick's catch block logs and ends the tick *)
LoadThrows(p) ==
    CASE p.op = "vtick" ->
            [IdleTask EXCEPT !.last = "failed", !.atFail = Len(StoredVisits)]
      [] p.op = "mtick" -> IdleTask
      [] OTHER -> [p EXCEPT !.pc = "done", !.err = TRUE]

(* records that a request of the task failed *)
Failed(p) == [p EXCEPT !.failed = TRUE]

NoRowsAlways(result) == Len(result) >= 0

(* line 81: !result || result.length === 0 *)
NoRows(result) == Len(result) = 0

(* load returned doc: what its caller does up to its next request *)
LoadReturns(p, doc) ==
    CASE p.op = "load" -> [p EXCEPT !.pc = "done", !.ret = doc]
      [] p.op = "add" ->
            LET msg == NewMessage(p.arg, clock)
            IN  SaveCall([p EXCEPT !.msg = msg, !.stats0 = doc.statistics],
                         PushMessage(doc, msg))
      [] p.op = "del" ->
            SaveCall([p EXCEPT !.stats0 = doc.statistics],
                     RemoveMessage(doc, p.arg))
      [] p.op = "visit" -> SaveCall(p, PushVisit(doc, p.arg.visit))
      [] p.op = "click" -> SaveCall(p, PushClick(doc, p.arg.visit))
      [] OTHER -> [p EXCEPT !.pc = "tick_resp", !.data = doc]

(* what a step of a caller leaves alone *)
Rest == UNCHANGED <<uniqueKey, clock, nextVisit, pollerVars, calls,
                    workload, log0>>

Writes(tbl) ==
    /\ table' = tbl
    /\ shrunk' = (shrunk \/ ~IsPrefix(StoredVisits, StoredVisitsOf(tbl)))

(* line 79: GET app_data, sent by task t with locals p *)
LoadGetBy(t, p) ==
    /\ \E ok \in Outcomes :
        LET result == StoreGetAll
        IN  /\ proc' = [proc EXCEPT ![t] =
                    IF ~ok THEN LoadThrows(Failed(p))
                    ELSE IF NoRows(result) THEN [p EXCEPT !.pc = "load_post"]
                    ELSE LoadReturns(p, ToInternal(result[1]))]
            /\ failures' = IF ok THEN failures ELSE failures + 1
    /\ UNCHANGED <<table, shrunk, posts, appended, mirror>>
    /\ Rest

LoadGet(t) ==
    /\ proc[t].pc = "load_get"
    /\ LoadGetBy(t, proc[t])

(* line 97: POST app_data with the default row, then lines 98-105 *)
LoadPost(t) ==
    /\ proc[t].pc = "load_post"
    /\ \E ok \in Outcomes :
        LET p == proc[t]
            done == ok /\ ~StoreRefusesInsert(DefaultRow)
        IN  /\ proc' = [proc EXCEPT ![t] =
                    IF done THEN LoadReturns(p, DefaultDoc)
                    ELSE LoadThrows(Failed(p))]
            /\ Writes(IF done THEN StoreInsert(DefaultRow) ELSE table)
            /\ posts' = posts + 1
            /\ failures' = IF ok THEN failures ELSE failures + 1
    /\ UNCHANGED <<appended, mirror>>
    /\ Rest

-----------------------------------------------------------------------------
(* saveDataToSupabase *)

(* JSON.stringify(data) *)
Stringify(data) == [t |-> "json", of |-> data]

CacheKeepsLastLoad(cache, data, now) ==
    IF cache.present
    THEN [cache EXCEPT !.data = data, !.lastSuccessfulSave = now]
    ELSE cache

(* lines 160-164: the cache object, when the page has one *)
CacheAfter(cache, data, now) ==
    IF cache.present
    THEN [present |-> TRUE, data |-> data, lastLoad |-> 0,
          lastSuccessfulSave |-> now]
    ELSE cache

(* the setItem calls of lines 168-170 that return before one throws: 3 is
   all of them, 0 also stands for a page without localStorage *)
StorageOutcomes(ls) == IF ls.available THEN 0..3 ELSE {0}

(* lines 166-171: the setItem calls up to the first that throws *)
StorageAfter(ls, data, now, k) ==
    IF ~ls.available THEN ls
    ELSE [available |-> TRUE,
          lastDataSave |-> IF k >= 1 THEN JStr(NumToString(now))
                           ELSE ls.lastDataSave,
          cachedData |-> IF k >= 2 THEN Stringify(data) ELSE ls.cachedData,
          cachedDataTime |-> IF k >= 3 THEN JStr(NumToString(now))
                             ELSE ls.cachedDataTime]

(* lines 160-171 *)
MirrorAfter(m, data, now, k) ==
    [cache |-> CacheAfter(m.cache, data, now),
     ls |-> StorageAfter(m.ls, data, now, k)]

SaveMirrorAlways(done, m, data, now, k) == MirrorAfter(m, data, now, k)

(* a request that throws (lines 150, 154, 157) leaves through the catch of
   line 174 and skips lines 160-171 *)
SaveMirror(done, m, data, now, k) ==
    IF done THEN MirrorAfter(m, data, now, k) ELSE m

(* lines 174-177 and the callers' catch blocks *)
SaveThrows(p) ==
    [p EXCEPT !.pc = "done", !.err = TRUE, !.stats0 = NoDoc,
              !.data = NoDoc, !.wire = NoDoc, !.msg = NoDoc]

(* line 173, and what the caller returns *)
SaveReturns(p) ==
    [p EXCEPT !.pc = "done", !.data = NoDoc, !.wire = NoDoc, !.msg = NoDoc,
              !.stats0 = NoDoc,
              !.ret = CASE p.op = "add" -> p.msg
                        [] p.op \in {"visit", "click"} -> JUndef
                        [] OTHER -> JBool(TRUE)]

(* line 152: existing && existing.length > 0 *)
RowExists(existing) == Len(existing) > 0

(* line 150: GET app_data?id=eq.1, and the branch of line 152 *)
SaveGet(t) ==
    /\ proc[t].pc = "save_get"
    /\ \E ok \in Outcomes :
        LET p == proc[t]
            existing == StoreGetById(1)
        IN  /\ proc' = [proc EXCEPT ![t] =
                    IF ~ok THEN SaveThrows(Failed(p))
                    ELSE IF RowExists(existing)
                         THEN [p EXCEPT !.pc = "save_patch"]
                    ELSE [p EXCEPT !.pc = "save_post"]]
            /\ failures' = IF ok THEN failures ELSE failures + 1
    /\ UNCHANGED <<table, shrunk, posts, appended, mirror>>
    /\ Rest

(* line 154 (PATCH) or line 157 (POST), then lines 160-173 *)
SaveWrite(t) ==
    /\ proc[t].pc \in {"save_patch", "save_post"}
    /\ \E ok \in Outcomes :
        LET p == proc[t]
            post == p.pc = "save_post"
            done == ok /\ ~(post /\ StoreRefusesInsert(p.wire))
        IN  /\ proc' = [proc EXCEPT ![t] =
                    IF done THEN SaveReturns(p) ELSE SaveThrows(Failed(p))]
            /\ Writes(IF ~done THEN table
                      ELSE IF post THEN StoreInsert(p.wire)
                      ELSE StorePatch(1, p.wire))
            /\ posts' = IF post THEN posts + 1 ELSE posts
            /\ appended' = IF done /\ p.op = "add" THEN Append(appended, p.msg)
                           ELSE appended
            /\ failures' = IF ok THEN failures ELSE failures + 1
            /\ \E k \in StorageOutcomes(mirror.ls) :
                  mirror' = SaveMirror(done, mirror, p.data, clock, k)
    /\ Rest

-----------------------------------------------------------------------------
(* The calls of the exported functions *)

(* the messages a caller may append *)
Messages ==
    {[text |-> JStr("a"), type |-> JUndef, active |-> JUndef],
     [text |-> JStr("b"), type |-> JStr("warn"), active |-> JBool(FALSE)]}

(* a message created before the run, at time i *)
InitMessage(i) ==
    NewMessage([text |-> JStr("old"), type |-> JUndef, active |-> JUndef], i)

InitLog(n) == [i \in 1..n |-> InitMessage(i)]

InitVisits == <<101, 102, 103>>

InitRow(messages, visits) ==
    [DefaultRow EXCEPT
        !.admin_messages = JArr(messages),
        !.statistics = JObj([clicks |-> JArr(<<>>), visits |-> JArr(visits),
                             daily_visits |-> EmptyMap])]

(* the documents a caller may pass to saveDataToSupabase *)
DocA ==
    [DefaultDoc EXCEPT
        !.links = JArr(<<"A">>),
        !.adminMessages = JArr(InitLog(1))]

DocB ==
    [DefaultDoc EXCEPT
        !.links = JArr(<<"B">>),
        !.socialLinks = JObj([discord |-> JStr("d"), x |-> JStr("")]),
        !.adminMessages = JArr(InitLog(2)),
        !.setupPageEnabled = JBool(FALSE)]

DocBig == [DefaultDoc EXCEPT !.adminMessages = JArr(InitLog(MaxMessages + 1))]

SaveDocs == {DocA, DocB, DocBig}

(* a document with most fields missing *)
DocSparse == [links |-> JArr(<<"C">>), setupPageEnabled |-> JBool(FALSE)]

(* a document whose adminCredentials is the empty string *)
DocEmptyCredentials == [DocA EXCEPT !.adminCredentials = JStr("")]

(* the ids a caller may ask to delete: the oldest initial message, a message
   created at the current clock reading, and an id no message has *)
DeleteIds == {JStr("1"), JStr(NumToString(clock)), JStr("none")}

(* a caller may start a call: one at a time unless the workload is "conc" *)
Admit(c) ==
    /\ workload # "bulk"
    /\ ~Running(c)
    /\ calls < MaxCalls
    /\ workload = "conc" \/ \A d \in Callers : ~Running(d)

Begin(c, op, arg, pc) ==
    /\ proc' = [proc EXCEPT ![c] =
            [IdleTask EXCEPT !.op = op, !.arg = arg, !.pc = pc,
                             !.tbl0 = table, !.posts0 = posts,
                             !.n = calls + 1, !.mir0 = mirror]]
    /\ calls' = calls + 1
    /\ UNCHANGED <<table, uniqueKey, clock, failures, posts, pollerVars,
                   workload, appended, log0, shrunk, mirror>>

(* loadDataFromSupabase() *)
StartLoad(c) ==
    /\ Admit(c)
    /\ Begin(c, "load", JUndef, "load_get")
    /\ UNCHANGED nextVisit

(* saveDataToSupabase(data), with data one of docs *)
StartSaveOf(c, docs) ==
    /\ Admit(c)
    /\ \E data \in docs :
        /\ proc' = [proc EXCEPT ![c] =
                SaveCall([IdleTask EXCEPT !.op = "save", !.arg = data,
                                          !.tbl0 = table, !.posts0 = posts,
                                          !.n = calls + 1, !.mir0 = mirror],
                         data)]
        /\ calls' = calls + 1
    /\ UNCHANGED <<table, uniqueKey, clock, failures, posts, pollerVars,
                   workload, appended, log0, shrunk, mirror, nextVisit>>

(* saveDataToSupabase(data) *)
StartSave(c) == StartSaveOf(c, SaveDocs)

(* addAdminMessage(message) *)
StartAdd(c) ==
    /\ Admit(c)
    /\ \E message \in Messages : Begin(c, "add", message, "load_get")
    /\ UNCHANGED nextVisit

(* deleteAdminMessage(messageId) *)
StartDel(c) ==
    /\ Admit(c)
    /\ \E messageId \in DeleteIds : Begin(c, "del", messageId, "load_get")
    /\ UNCHANGED nextVisit

(* a writer elsewhere in the application records a visit: load, push, save *)
StartVisit(c) ==
    /\ Admit(c)
    /\ nextVisit <= MaxNewVisits
    /\ Begin(c, "visit", [visit |-> nextVisit], "load_get")
    /\ nextVisit' = nextVisit + 1

(* a writer elsewhere in the application records a click: load, push, save *)
StartClick(c) ==
    /\ Admit(c)
    /\ nextVisit <= MaxNewVisits
    /\ Begin(c, "click", [visit |-> nextVisit], "load_get")
    /\ nextVisit' = nextVisit + 1

(* the "bulk" workload: one caller appends the same message again and again,
   one millisecond apart *)
BulkAdd ==
    /\ workload = "bulk"
    /\ ~Running("c1")
    /\ calls < MaxBulk
    /\ proc' = [proc EXCEPT !["c1"] =
            [IdleTask EXCEPT !.op = "add", !.pc = "load_get",
                             !.arg = [text |-> JStr("a"), type |-> JUndef,
                                      active |-> JUndef],
                             !.tbl0 = table, !.posts0 = posts, !.n = calls + 1]]
    /\ calls' = calls + 1
    /\ clock' = clock + 1
    /\ UNCHANGED <<table, uniqueKey, failures, posts, pollerVars, workload,
                   appended, log0, shrunk, mirror, nextVisit>>

(* time passes *)
Tock ==
    /\ workload # "bulk"
    /\ clock < Len(log0) + MaxClock
    /\ clock' = clock + 1
    /\ UNCHANGED <<table, uniqueKey, proc, failures, posts, nextVisit,
                   pollerVars, calls, workload, appended, log0, shrunk, mirror>>

-----------------------------------------------------------------------------
(* listenToNewVisits and listenToAdminMessages *)

callerVars == <<table, uniqueKey, clock, failures, posts, nextVisit, calls,
                workload, appended, log0, shrunk, mirror>>

NewVisitsSkipsOne(visits, last) == SliceFrom(visits, last + 1)

NewVisitsLastOnly(visits, last) == LastN(visits, 1)

NewVisitsAll(visits, last) == visits

(* line 190: visits.slice(lastVisitCount) *)
NewVisits(visits, last) == SliceFrom(visits, last)

MessagesGrew(n, last) == n > last

(* line 211: messages.length !== lastMessageCount *)
MessagesChanged(n, last) == n # last

(* the invocations of a tick's callback that may throw: 0 is none *)
ThrowAt(n) == IF throws < MaxThrows THEN 0..n ELSE {0}

(* the interval of line 184 fires: line 186 calls loadDataFromSupabase, whose
   GET is the tick's first step *)
VisitTick(t) ==
    /\ vStarted
    /\ proc[t].pc = "idle"
    /\ LoadGetBy(t, [IdleTask EXCEPT !.op = "vtick", !.pc = "load_get",
                                     !.last = proc[t].last,
                                     !.atFail = proc[t].atFail])

(* how a tick ends: after a failed tick, one that ends normally recovers *)
TickEnds(p, normally) ==
    IF normally /\ p.last = "failed"
    THEN [IdleTask EXCEPT !.last = "recovered", !.atFail = p.atFail]
    ELSE IdleTask

(* lines 187-195, with the catch of line 196 around a throwing callback *)
VisitTickEnd(t) ==
    /\ proc[t].pc = "tick_resp"
    /\ proc[t].op = "vtick"
    /\ LET visits == Elems(OrElse(OptField(proc[t].data.statistics, "visits"),
                                  JArr(<<>>)))
           newVisits == NewVisits(visits, lastVisitCount)
       IN  IF Len(visits) > lastVisitCount
           THEN \E k \in ThrowAt(Len(newVisits)) :
                  /\ visitCalls' = visitCalls \o
                        (IF k = 0 THEN newVisits ELSE SubSeq(newVisits, 1, k))
                  /\ lastVisitCount' =
                        IF k = 0 THEN Len(visits) ELSE lastVisitCount
                  /\ throws' = IF k = 0 THEN throws ELSE throws + 1
                  /\ proc' = [proc EXCEPT ![t] = TickEnds(proc[t], k = 0)]
           ELSE /\ UNCHANGED <<visitCalls, lastVisitCount, throws>>
                /\ proc' = [proc EXCEPT ![t] = TickEnds(proc[t], TRUE)]
    /\ UNCHANGED <<callerVars, vStarted, visitsAtStart, mStarted,
                   lastMessageCount, msgCalls>>

(* the interval of line 206 fires: line 208 calls loadDataFromSupabase, whose
   GET is the tick's first step *)
MessageTick(t) ==
    /\ mStarted
    /\ proc[t].pc = "idle"
    /\ LoadGetBy(t, [IdleTask EXCEPT !.op = "mtick", !.pc = "load_get"])

(* lines 209-214, with the catch of line 215 around a throwing callback *)
MessageTickEnd(t) ==
    /\ proc[t].pc = "tick_resp"
    /\ proc[t].op = "mtick"
    /\ LET messages == Elems(OrElse(Field(proc[t].data, "adminMessages"),
                                    JArr(<<>>)))
       IN  IF MessagesChanged(Len(messages), lastMessageCount)
           THEN \E k \in ThrowAt(1) :
                  /\ msgCalls' = Append(msgCalls, messages)
                  /\ lastMessageCount' =
                        IF k = 0 THEN Len(messages) ELSE lastMessageCount
                  /\ throws' = IF k = 0 THEN throws ELSE throws + 1
                  /\ proc' = [proc EXCEPT ![t] = TickEnds(proc[t], k = 0)]
           ELSE /\ UNCHANGED <<msgCalls, lastMessageCount, throws>>
                /\ proc' = [proc EXCEPT ![t] = TickEnds(proc[t], TRUE)]
    /\ UNCHANGED <<callerVars, vStarted, lastVisitCount, visitCalls,
                   visitsAtStart, mStarted>>

-----------------------------------------------------------------------------
(* Initial states and specifications *)

(* listening: whether the page has called listenToNewVisits (lines 181-184)
   and listenToAdminMessages (lines 203-206) *)
(* the key constraint only shows when a POST meets a row, and without an
   empty table no POST is ever sent *)
InitRest(tables, workloads, listening) ==
    /\ table \in tables
    /\ uniqueKey \in (IF table = <<>> THEN BOOLEAN ELSE {FALSE})
    /\ workload \in workloads
    /\ log0 = StoredLog
    /\ clock = Len(log0)
    /\ failures = 0
    /\ posts = 0
    /\ calls = 0
    /\ nextVisit = 1
    /\ vStarted = listening
    /\ lastVisitCount = 0
    /\ visitCalls = <<>>
    /\ visitsAtStart = (IF listening THEN StoredVisits ELSE <<>>)
    /\ mStarted = listening
    /\ lastMessageCount = 0
    /\ msgCalls = <<>>
    /\ throws = 0
    /\ appended = <<>>
    /\ shrunk = FALSE

(* no call has started *)
InitStore(tables, workloads, listening) ==
    /\ proc = [t \in Tasks |-> IdleTask]
    /\ InitRest(tables, workloads, listening)

(* a page without cache object and without localStorage *)
InitWith(tables, workloads, listening) ==
    /\ mirror = NoMirror
    /\ InitStore(tables, workloads, listening)

Step(t) == LoadGet(t) \/ LoadPost(t) \/ SaveGet(t) \/ SaveWrite(t)

(* concurrent callers of the exported functions *)
Init == InitWith({<<>>, <<InitRow(InitLog(2), <<>>)>>}, {"conc"}, FALSE)

Next ==
    \/ \E c \in Callers :
          StartLoad(c) \/ StartSave(c) \/ StartAdd(c) \/ StartDel(c)
    \/ \E t \in Callers : Step(t)
    \/ Tock

Spec == Init /\ [][Next]_vars

(* concurrent callers of loadDataFromSupabase *)
InitLoads == InitWith({<<>>, <<InitRow(InitLog(2), <<>>)>>}, {"conc"}, FALSE)

NextLoads ==
    \/ \E c \in Callers : StartLoad(c)
    \/ \E t \in Callers : LoadGet(t) \/ LoadPost(t)

SpecLoads == InitLoads /\ [][NextLoads]_vars

(* one caller at a time: loads, appends and deletions *)
InitSeq ==
    InitWith({<<>>, <<InitRow(InitLog(2), <<>>)>>,
              <<InitRow(InitLog(MaxMessages), <<>>)>>}, {"seq"}, FALSE)

NextSeq ==
    \/ \E c \in Callers : StartLoad(c) \/ StartAdd(c) \/ StartDel(c)
    \/ \E t \in Callers : Step(t)
    \/ Tock

SpecSeq == InitSeq /\ [][NextSeq]_vars

(* one caller appending messages, call after call *)
InitAppend ==
    \/ InitWith({<<>>}, {"seq", "bulk"}, FALSE)
    \/ InitWith({<<InitRow(InitLog(MaxMessages - 1), <<>>)>>,
                 <<InitRow(InitLog(MaxMessages), <<>>)>>}, {"seq"}, FALSE)

NextAppend ==
    \/ StartAdd("c1")
    \/ BulkAdd
    \/ Step("c1")
    \/ Tock

SpecAppend == InitAppend /\ [][NextAppend]_vars

(* the message poller beside one caller appending and deleting messages *)
InitMsgs == InitWith({<<>>, <<InitRow(InitLog(2), <<>>)>>}, {"seq"}, TRUE)

NextMsgs ==
    \/ StartAdd("c1") \/ StartDel("c1")
    \/ \E t \in {"c1"} \cup MessageTicks : Step(t)
    \/ \E t \in MessageTicks : MessageTick(t) \/ MessageTickEnd(t)

SpecMsgs == InitMsgs /\ [][NextMsgs]_vars

(* the two pollers beside one visit writer at a time *)
InitPoll ==
    InitWith({<<>>, <<InitRow(InitLog(2), InitVisits)>>}, {"seq"}, TRUE)

NextPoll ==
    \/ StartVisit("c1")
    \/ \E t \in Tasks \ {"c2"} : Step(t)
    \/ \E t \in VisitTicks : VisitTick(t) \/ VisitTickEnd(t)
    \/ \E t \in MessageTicks : MessageTick(t) \/ MessageTickEnd(t)

SpecPoll == InitPoll /\ [][NextPoll]_vars

(* the visit poller beside concurrent visit writers: the interval keeps
   firing, every request of a tick is answered and the awaited load is
   resumed; the writers are under no such obligation. The document exists
   from the start, so no load finds the table empty: the create of line 97
   is never reached and has no step here. *)
InitLive == InitWith({<<InitRow(<<>>, <<>>)>>}, {"conc"}, TRUE)

NextLive ==
    \/ \E c \in Callers : StartVisit(c)
    \/ \E c \in Callers : LoadGet(c) \/ SaveGet(c) \/ SaveWrite(c)
    \/ \E t \in VisitTicks : VisitTick(t) \/ VisitTickEnd(t)

Fairness == \A t \in VisitTicks : WF_vars(VisitTick(t) \/ VisitTickEnd(t))

SpecLive == InitLive /\ [][NextLive]_vars /\ Fairness

(* a caller appending and deleting messages beside a writer of visits and
   clicks *)
InitStats == InitWith({<<>>, <<InitRow(InitLog(2), <<>>)>>}, {"conc"}, FALSE)

NextStats ==
    \/ StartAdd("c1") \/ StartDel("c1")
    \/ StartVisit("c2") \/ StartClick("c2")
    \/ \E c \in Callers : Step(c)

SpecStats == InitStats /\ [][NextStats]_vars

(* the documents with every field populated *)
PopulatedDocs ==
    [links : {JArr(<<>>), JArr(<<"A">>)},
     socialLinks : {EmptySocial,
                    JObj([discord |-> JStr("d"), x |-> JStr("x")])},
     adminCredentials : {JObj([user |-> JStr("u")]), JStr("pw"), JStr(""),
                         JNum(0), JBool(FALSE)},
     statistics : {JObj(st) : st \in [clicks : {JArr(<<>>), JArr(<<1>>)},
                                      visits : {JArr(<<>>), JArr(<<1, 2>>)},
                                      dailyVisits : {EmptyMap}]},
     adminMessages : {JArr(<<>>), JArr(InitLog(1))},
     setupPageEnabled : {JBool(TRUE), JBool(FALSE)}]

(* a column of a row: absent, or holding one of the values *)
Column(k, values) == {<<>>} \cup {k :> v : v \in values}

(* the statistics objects, with sub-fields absent or null *)
WireStats ==
    {JObj(c @@ v @@ d) :
        c \in Column("clicks", {JNull, JArr(<<1>>)}),
        v \in Column("visits", {JArr(<<1, 2>>)}),
        d \in {"daily_visits" :> w : w \in {JNull, EmptyMap}}}

(* the rows the store may return, with columns absent or null *)
WireRows ==
    {("id" :> 1) @@ l @@ so @@ a @@ st @@ m @@ e :
        l \in Column("links", {JNull, JArr(<<"A">>)}),
        so \in Column("social_links",
                      {JNull, JObj([discord |-> JStr("d"), x |-> JStr("x")]),
                       JObj([discord |-> JStr("d")])}),
        a \in Column("admin_credentials", {JObj([user |-> JStr("u")])}),
        st \in Column("statistics", {JNull} \cup WireStats),
        m \in Column("admin_messages", {JNull, JArr(InitLog(1))}),
        e \in Column("setup_page_enabled",
                     {JNull, JBool(TRUE), JBool(FALSE)})}

(* the field mapping alone: a document on its way to the wire and back, or
   a row on its way to the caller of load *)
MapperInputs ==
    {[IdleTask EXCEPT !.op = "roundtrip", !.pc = "to_wire", !.data = doc] :
        doc \in PopulatedDocs}
    \cup {[IdleTask EXCEPT !.op = "fill", !.pc = "to_internal", !.wire = row] :
        row \in WireRows}

InitMapper ==
    /\ mirror = NoMirror
    /\ \E p \in MapperInputs :
          proc = [t \in Tasks |-> IF t = "c1" THEN p ELSE IdleTask]
    /\ InitRest({<<>>}, {"seq"}, FALSE)

(* lines 135-147 *)
MapToWire(c) ==
    /\ proc[c].pc = "to_wire"
    /\ proc' = [proc EXCEPT ![c].wire = ToWire(proc[c].data),
                            ![c].pc = "to_internal"]
    /\ UNCHANGED <<callerVars, pollerVars>>

(* lines 108-122 *)
MapToInternal(c) ==
    /\ proc[c].pc = "to_internal"
    /\ proc' = [proc EXCEPT ![c].ret = ToInternal(proc[c].wire),
                            ![c].pc = "done"]
    /\ UNCHANGED <<callerVars, pollerVars>>

NextMapper == MapToWire("c1") \/ MapToInternal("c1")

SpecMapper == InitMapper /\ [][NextMapper]_vars

(* the visit poller with ticks that may overlap, beside one visit writer *)
InitOverlap == InitWith({<<InitRow(<<>>, <<>>)>>}, {"seq"}, TRUE)

NextOverlap ==
    \/ StartVisit("c1")
    \/ LoadGet("c1") \/ SaveGet("c1") \/ SaveWrite("c1")
    \/ \E t \in VisitTicks \cup LateTicks : VisitTick(t) \/ VisitTickEnd(t)

SpecOverlap == InitOverlap /\ [][NextOverlap]_vars

(* concurrent callers of addAdminMessage *)
InitAdds == InitWith({<<>>, <<InitRow(InitLog(2), <<>>)>>}, {"conc"}, FALSE)

NextAdds ==
    \/ \E c \in Callers : StartAdd(c)
    \/ \E c \in Callers : Step(c)
    \/ Tock

SpecAdds == InitAdds /\ [][NextAdds]_vars

(* a save by one caller, then a load by the other; the table is empty, holds
   the document, or holds it twice (two rows with id 1, as concurrent
   creations leave on a store without a unique key) *)
InitReadBack ==
    InitWith({<<>>, <<InitRow(InitLog(2), <<>>)>>,
              <<InitRow(InitLog(2), <<>>), InitRow(InitLog(1), <<>>)>>},
             {"seq"}, FALSE)

(* the documents saved: the populated ones, one that lacks fields, one whose
   adminCredentials is the empty string *)
ReadBackDocs == {DocA, DocB, DocSparse, DocEmptyCredentials}

NextReadBack ==
    \/ StartSaveOf("c1", ReadBackDocs)
    \/ StartLoad("c2")
    \/ \E c \in Callers : Step(c)

SpecReadBack == InitReadBack /\ [][NextReadBack]_vars

(* the mirror of a page: a cache object loaded at time 5, an empty
   localStorage *)
OldCache ==
    [present |-> TRUE, data |-> DefaultDoc, lastLoad |-> 5,
     lastSuccessfulSave |-> 0]

EmptyStorage ==
    [available |-> TRUE, lastDataSave |-> JNull, cachedData |-> JNull,
     cachedDataTime |-> JNull]

(* one save at a time, on pages with and without cache and localStorage *)
InitCache ==
    /\ mirror \in [cache : {NoCache, OldCache},
                    ls : {NoStorage, EmptyStorage}]
    /\ InitStore({<<>>, <<InitRow(InitLog(2), <<>>)>>}, {"seq"}, FALSE)

NextCache ==
    \/ StartSave("c1")
    \/ SaveGet("c1") \/ SaveWrite("c1")
    \/ Tock

SpecCache == InitCache /\ [][NextCache]_vars

-----------------------------------------------------------------------------
(* Properties *)

(* the call that started last, once it has returned or thrown *)
LastCall(c) == proc[c].pc = "done" /\ proc[c].n = calls

(* C1: the table never holds more than one row with id = 1, whatever the
   interleaving of the requests of concurrent load and save calls. *)
C1_SingleRow == Len(StoreGetById(1)) <= 1

(* C2: a load that returns with the table empty at its start has issued one
   POST, left exactly the default row and returned the default document; a
   load that returns with a row present at its start has issued no POST and
   left the table as it was. *)
C2_LoadCreatesOnce ==
    \A c \in Callers :
        (LastCall(c) /\ proc[c].op = "load" /\ ~proc[c].err) =>
            IF proc[c].tbl0 = <<>>
            THEN /\ proc[c].ret = DefaultDoc
                 /\ table = <<DefaultRow>>
                 /\ posts = proc[c].posts0 + 1
            ELSE /\ posts = proc[c].posts0
                 /\ table = proc[c].tbl0

(* a first load found the table empty and a second load ran after it *)
C2_Witness ==
    \E c, d \in Callers :
        /\ proc[c].op = "load" /\ proc[c].pc = "done" /\ proc[c].n = 1
        /\ proc[c].tbl0 = <<>> /\ proc[c].ret = DefaultDoc
        /\ proc[d].op = "load" /\ LastCall(d) /\ proc[d].n = 2
        /\ proc[d].tbl0 = <<DefaultRow>> /\ proc[d].ret = DefaultDoc
        /\ posts = 1
        /\ Len(table) = 1

(* C3: the stored adminMessages never holds more than 50 messages, whether
   the document was saved directly or through addAdminMessage or
   deleteAdminMessage. *)
C3_LogBounded == Len(StoredLog) <= MaxMessages

(* C4: with one caller appending, call after call, the stored log is the
   initial log followed by the messages appended, cut to its last 50: it
   has min(50, initial length + appends) messages in their original order. *)
C4_KeepsLast50 ==
    LET all == log0 \o appended
    IN  /\ StoredLog = LastN(all, MaxMessages)
        /\ Len(StoredLog) = IF Len(all) < MaxMessages THEN Len(all)
                            ELSE MaxMessages

(* 55 appends to an empty log: the 50 most recent are stored *)
C4_Witness ==
    /\ log0 = <<>>
    /\ Len(appended) = MaxMessages + 5
    /\ Len(StoredLog) = MaxMessages
    /\ StoredLog[1] = appended[6]
    /\ StoredLog[MaxMessages] = appended[MaxMessages + 5]

(* C5: a deleteAdminMessage(id) that returns, with no other writer, returns
   true and leaves the log it found without the messages of that id and
   with every other message in its previous order; in particular the log
   is unchanged when no message had that id. *)
C5_DeleteById ==
    \A c \in Callers :
        (LastCall(c) /\ proc[c].op = "del" /\ ~proc[c].err) =>
            LET before == StoredLogOf(proc[c].tbl0)
                others == SelectSeq(before, LAMBDA m : m.id # proc[c].arg)
            IN  /\ proc[c].ret = JBool(TRUE)
                /\ StoredLog = others
                /\ \A i \in DOMAIN StoredLog : StoredLog[i].id # proc[c].arg
                /\ (\A i \in DOMAIN before : before[i].id # proc[c].arg)
                        => StoredLog = before

(* a deletion removed the oldest of 50 messages *)
C5_Witness ==
    \E c \in Callers :
        /\ LastCall(c) /\ proc[c].op = "del" /\ ~proc[c].err
        /\ proc[c].arg = JStr("1")
        /\ Len(StoredLogOf(proc[c].tbl0)) = MaxMessages
        /\ Len(StoredLog) = MaxMessages - 1
        /\ StoredLog[1] = InitMessage(2)

(* what a tick that awaits its callbacks has loaded *)
LoadedVisits(t) ==
    Elems(OrElse(OptField(proc[t].data.statistics, "visits"), JArr(<<>>)))

LoadedMessages(t) ==
    Elems(OrElse(Field(proc[t].data, "adminMessages"), JArr(<<>>)))

Range(q) == {q[i] : i \in DOMAIN q}

(* C6 as claimed: once the poller started on 3 visits has caught up with the
   5 visits of the document, without any callback throwing, the callback
   has been invoked exactly twice, with the 2 appended visits in order. *)
C6_OnlyNewVisits ==
    (/\ visitsAtStart = InitVisits
     /\ StoredVisits = InitVisits \o <<1, 2>>
     /\ lastVisitCount = 5
     /\ throws = 0)
        => visitCalls = <<1, 2>>

(* C6 as amended: every one of the first lastVisitCount visits of the
   document has been passed to the callback, those stored before the poller
   started included; while no callback throws, each exactly once and in
   order: caught up with 5 visits, of which 3 were there at the start, that
   is 5 invocations, the last two with the appended visits. *)
C6_EveryVisitOnce ==
    /\ lastVisitCount <= Len(StoredVisits)
    /\ Range(SubSeq(StoredVisits, 1, lastVisitCount)) \subseteq Range(visitCalls)
    /\ throws = 0 =>
        /\ visitCalls = SubSeq(StoredVisits, 1, lastVisitCount)
        /\ (visitsAtStart = InitVisits /\ lastVisitCount = 5)
                => visitCalls = InitVisits \o SubSeq(StoredVisits, 4, 5)

(* the poller started on 3 visits and has reported the 5 of the document *)
C6_Witness ==
    /\ visitsAtStart = InitVisits
    /\ StoredVisits = InitVisits \o <<1, 2>>
    /\ throws = 0
    /\ lastVisitCount = 5
    /\ visitCalls = InitVisits \o <<1, 2>>

(* the step that ends a tick which has loaded the document *)
TickEndStep(t) == proc[t].pc = "tick_resp" /\ proc'[t].pc # "tick_resp"

(* C7 as claimed: a tick that has loaded the document invokes the callback
   once, with the whole list, exactly when the length of the list differs
   from the last-seen count, and the count is that length afterwards. *)
C7_CountFollowsLength ==
    [][\A t \in MessageTicks : TickEndStep(t) =>
          /\ lastMessageCount' = Len(LoadedMessages(t))
          /\ msgCalls' =
                IF Len(LoadedMessages(t)) # lastMessageCount
                THEN Append(msgCalls, LoadedMessages(t)) ELSE msgCalls]_vars

(* C7 as amended: the same, but the count becomes that length only when the
   callback returns; when it throws the count is left as it was. *)
C7_MessageTick ==
    [][\A t \in MessageTicks : TickEndStep(t) =>
          IF Len(LoadedMessages(t)) # lastMessageCount
          THEN /\ msgCalls' = Append(msgCalls, LoadedMessages(t))
               /\ lastMessageCount' =
                    IF throws' = throws THEN Len(LoadedMessages(t))
                    ELSE lastMessageCount
          ELSE UNCHANGED <<msgCalls, lastMessageCount, throws>>]_vars

(* the poller saw 2 messages, then the 1 left by a deletion *)
C7_Witness ==
    /\ throws = 0
    /\ Len(msgCalls) = 2
    /\ msgCalls[1] = InitLog(2)
    /\ msgCalls[2] = <<InitMessage(2)>>
    /\ lastMessageCount = 1
    /\ StoredLog = <<InitMessage(2)>>

(* C8: a request of a tick's load fails: the tick ends there, no callback is
   invoked and no counter changes; the next tick can start; and a visit tick
   that ends normally, the first after a failure included, leaves every
   visit it loaded passed to the callback and the counter at their number. *)
C8_Outage ==
    /\ [](\A t \in VisitTicks : proc[t].pc = "idle" => ENABLED VisitTick(t))
    /\ [](\A t \in MessageTicks :
            proc[t].pc = "idle" => ENABLED MessageTick(t))
    /\ [][\A t \in VisitTicks \cup MessageTicks :
            /\ (proc'[t] # proc[t] /\ failures' > failures) =>
                  /\ proc'[t].pc = "idle"
                  /\ UNCHANGED <<visitCalls, msgCalls, lastVisitCount,
                                 lastMessageCount>>
            /\ (t \in VisitTicks /\ TickEndStep(t) /\ throws' = throws) =>
                  /\ Range(LoadedVisits(t)) \subseteq Range(visitCalls')
                  /\ lastVisitCount' = Len(LoadedVisits(t))]_vars

(* a visit tick failed, and the next one reported a visit stored since *)
C8_Witness ==
    \E t \in VisitTicks :
        /\ proc[t].last = "recovered"
        /\ Len(StoredVisits) > proc[t].atFail
        /\ lastVisitCount = Len(StoredVisits)
        /\ StoredVisits[Len(StoredVisits)] \in Range(visitCalls)

(* C9 as claimed: with ticks that keep firing and loads that end up
   succeeding, a visit that is stored from some point on is eventually
   passed to the callback, whatever the writers do. *)
C9_EventuallyReported ==
    \A v \in 1..MaxNewVisits :
        <>[](v \in Range(StoredVisits)) => <>(v \in Range(visitCalls))

(* C9 as amended: the same, in the runs in which no write replaces the
   stored visits by a sequence that does not extend them (the callback
   throws MaxThrows times at most). *)
C9_ReportedWhileAppendOnly ==
    \A v \in 1..MaxNewVisits :
        <>[](v \in Range(StoredVisits))
            => <>(v \in Range(visitCalls) \/ shrunk)

(* two writers each appended a visit, a tick failed in between, and both
   visits were passed to the callback *)
C9_Witness ==
    /\ ~shrunk
    /\ StoredVisits = <<1, 2>>
    /\ \A c \in Callers : proc[c].op = "visit" /\ proc[c].pc = "done"
    /\ \E t \in VisitTicks : proc[t].last = "recovered"
    /\ visitCalls = <<1, 2>>
    /\ lastVisitCount = 2

(* C10: a load of which a request failed ends in an error and returns no
   document; a load that returns a document had no failed request. *)
C10_LoadFailurePropagates ==
    \A c \in Callers :
        (proc[c].op = "load" /\ proc[c].pc = "done") =>
            /\ proc[c].failed => (proc[c].err /\ proc[c].ret = JUndef)
            /\ ~proc[c].failed => (~proc[c].err /\ proc[c].ret # JUndef)

(* the create issued on an empty table failed *)
C10_Witness ==
    \E c \in Callers :
        /\ proc[c].op = "load" /\ LastCall(c) /\ calls = 1
        /\ proc[c].failed /\ proc[c].err
        /\ posts = 1
        /\ table = <<>>

(* C11: a save of which the existence check or the write failed has thrown,
   returned nothing, and left the cache object and localStorage as they were
   when it was called. *)
C11_FailedSaveKeepsMirror ==
    \A c \in Callers :
        (LastCall(c) /\ proc[c].op = "save" /\ proc[c].failed) =>
            /\ proc[c].err
            /\ proc[c].ret = JUndef
            /\ mirror = proc[c].mir0

(* a save succeeded and filled the mirror; the write of the next one failed *)
C11_Witness ==
    \E c \in Callers :
        /\ LastCall(c) /\ proc[c].op = "save" /\ proc[c].n = 2
        /\ proc[c].failed /\ proc[c].err
        /\ proc[c].tbl0 = table /\ table # <<>>
        /\ proc[c].arg = DocB
        /\ mirror.cache.present /\ mirror.ls.available
        /\ mirror.cache.data = DocA
        /\ mirror.ls.cachedData = Stringify(DocA)

(* the step in which a save returns *)
SaveReturnStep(c) ==
    /\ proc[c].op = "save" /\ proc[c].pc # "done"
    /\ proc'[c].pc = "done" /\ ~proc'[c].err

(* C12: a save whose remote write succeeded returns true, whatever happens
   to the setItem calls and with or without a cache object; a cache object
   then holds the document saved, lastLoad 0 and the time of the save. *)
C12_SaveSucceedsDespiteMirror ==
    [][\A c \in Callers : SaveReturnStep(c) =>
          /\ proc'[c].ret = JBool(TRUE)
          /\ mirror'.cache =
                IF mirror.cache.present
                THEN [present |-> TRUE, data |-> proc[c].arg, lastLoad |-> 0,
                      lastSuccessfulSave |-> clock]
                ELSE NoCache]_vars

(* a save returned true although the second setItem threw; the cache object
   was updated *)
C12_Witness ==
    \E c \in Callers :
        /\ LastCall(c) /\ proc[c].op = "save" /\ ~proc[c].err
        /\ proc[c].ret = JBool(TRUE)
        /\ proc[c].mir0.cache = OldCache
        /\ mirror.cache.present /\ mirror.ls.available
        /\ mirror.cache.data = proc[c].arg /\ mirror.cache.lastLoad = 0
        /\ mirror.cache.lastSuccessfulSave = clock /\ clock > Len(log0)
        /\ mirror.ls.lastDataSave # JNull /\ mirror.ls.cachedData = JNull

(* the two callers have each completed a save, with different payloads *)
BothSaved ==
    /\ \A c \in Callers :
          proc[c].op = "save" /\ proc[c].pc = "done" /\ ~proc[c].err
    /\ proc["c1"].arg # proc["c2"].arg

(* C13: once two saves with payloads A and B have both returned, the table
   holds exactly one row, and it is the wire form of A or of B in full. *)
C13_OneOfTwoPayloads ==
    BothSaved =>
        /\ Len(table) = 1
        /\ table[1] \in {ToWire(proc[c].arg) : c \in Callers}

StoredClicks == StoredClicksOf(table)

(* a step of an addAdminMessage or deleteAdminMessage call *)
MessageCallStep(c) == proc[c].op \in {"add", "del"} /\ proc'[c] # proc[c]

(* C14 as claimed: no step of addAdminMessage or deleteAdminMessage removes
   a stored visit or click, whatever a writer of visits and clicks does in
   between: what is stored stays a prefix of what is stored next. *)
C14_StatsOnlyGrow ==
    [][\A c \in Callers : MessageCallStep(c) =>
          /\ IsPrefix(StoredVisits, StoredVisits')
          /\ IsPrefix(StoredClicks, StoredClicks')]_vars

(* C14 as amended: a step of addAdminMessage or deleteAdminMessage leaves
   the stored visits and clicks as they are, or is the write of its save
   and stores the visits and clicks the call loaded. *)
C14_StoresWhatItLoaded ==
    [][\A c \in Callers : MessageCallStep(c) =>
          \/ StoredVisits' = StoredVisits /\ StoredClicks' = StoredClicks
          \/ /\ proc[c].pc \in {"save_patch", "save_post"}
             /\ StoredVisits' = Elems(OptField(proc[c].stats0, "visits"))
             /\ StoredClicks' = Elems(OptField(proc[c].stats0, "clicks"))]_vars

(* a message call returned after a visit was stored, and the visit is still
   there *)
C14_Witness ==
    /\ proc["c1"].op \in {"add", "del"} /\ proc["c1"].pc = "done"
    /\ ~proc["c1"].err /\ proc["c1"].n = 2
    /\ proc["c2"].op = "visit" /\ proc["c2"].pc = "done" /\ ~proc["c2"].err
    /\ StoredVisitsOf(proc["c1"].tbl0) = <<1>>
    /\ StoredVisits = <<1>>

(* C15: a populated document converted to a row and back is the document *)
C15_RoundTrip ==
    \A c \in Callers :
        (proc[c].op = "roundtrip" /\ proc[c].pc = "done") =>
            proc[c].ret = proc[c].data

IsArr(v) == v.t = "arr"
IsObj(v) == v.t = "obj"

(* C16: whatever columns of the row are null or absent, the document load
   returns has sequences for links, clicks, visits and adminMessages, a
   mapping for dailyVisits, both keys in socialLinks (the default when the
   column is missing) and setupPageEnabled true unless the row holds false *)
C16_DefaultsFilled ==
    \A c \in Callers :
        (proc[c].op = "fill" /\ proc[c].pc = "done") =>
            LET row == proc[c].wire
                doc == proc[c].ret
            IN  /\ IsArr(doc.links) /\ IsArr(doc.adminMessages)
                /\ IsObj(doc.statistics)
                /\ IsArr(doc.statistics.o.clicks)
                /\ IsArr(doc.statistics.o.visits)
                /\ IsObj(doc.statistics.o.dailyVisits)
                /\ IsObj(doc.socialLinks)
                /\ {"discord", "x"} \subseteq DOMAIN doc.socialLinks.o
                /\ ~Truthy(Field(row, "social_links"))
                        => doc.socialLinks = EmptySocial
                /\ doc.setupPageEnabled =
                        JBool(Field(row, "setup_page_enabled") # JBool(FALSE))

(* how many times the callback was invoked with visit v *)
Passed(v) == Cardinality({i \in DOMAIN visitCalls : visitCalls[i] = v})

(* the place of visit v in the stored sequence *)
Place(v) == CHOOSE i \in DOMAIN StoredVisits : StoredVisits[i] = v

(* the invocations follow the order of the stored sequence *)
InStoredOrder ==
    \A i, j \in DOMAIN visitCalls :
        i < j => Place(visitCalls[i]) < Place(visitCalls[j])

(* C17 as claimed: whatever the ticks do, overlapping or with a callback
   that throws, every visit is passed to the callback at most once, and the
   visits are passed in the order of the stored sequence. *)
C17_AtMostOnceInOrder ==
    /\ \A v \in Range(StoredVisits) : Passed(v) <= 1
    /\ InStoredOrder

(* C17 as amended: every visit is passed at most once more than there were
   ticks in which an invocation threw; with no such tick every visit is
   passed at most once and in the order of the stored sequence, also when
   ticks overlap. *)
C17_OnceMorePerThrow ==
    /\ Range(visitCalls) \subseteq Range(StoredVisits)
    /\ \A v \in Range(StoredVisits) : Passed(v) <= 1 + throws
    /\ throws = 0 =>
          /\ \A v \in Range(StoredVisits) : Passed(v) <= 1
          /\ InStoredOrder

(* an invocation threw and the first visit was passed again by a later
   tick, which overtook a tick that still holds an older load *)
C17_Witness ==
    /\ throws = 1
    /\ StoredVisits = <<1, 2>>
    /\ Passed(1) = 2
    /\ Passed(2) = 1
    /\ lastVisitCount = 2
    /\ proc["vt"].pc = "tick_resp"
    /\ Len(LoadedVisits("vt")) < lastVisitCount

(* the two callers have each completed an addAdminMessage, the only calls
   so far *)
BothAdded ==
    /\ calls = 2
    /\ \A c \in Callers :
          proc[c].op = "add" /\ proc[c].pc = "done" /\ ~proc[c].err

(* C18: two concurrent addAdminMessage calls that both return have each
   returned the message they created, and the stored log is the initial log
   followed by both messages, or by the message of the call that wrote last
   alone: the other message is lost. *)
C18_AddMayLoseUpdate ==
    BothAdded =>
        /\ Len(appended) = 2
        /\ {proc[c].ret : c \in Callers} = Range(appended)
        /\ \/ StoredLog = log0 \o appended
           \/ StoredLog = Append(log0, appended[2])

(* both calls returned their message and only the second is stored *)
C18_Witness ==
    /\ BothAdded
    /\ Len(appended) = 2
    /\ appended[1] # appended[2]
    /\ log0 # <<>>
    /\ StoredLog = Append(log0, appended[2])
    /\ appended[1] \notin Range(StoredLog)

(* C19: the messages of the stored log that addAdminMessage created in the
   run have pairwise distinct ids, whenever they were created. *)
C19_UniqueIds ==
    \A i, j \in DOMAIN StoredLog :
        (i < j /\ StoredLog[i] \in Range(appended)
               /\ StoredLog[j] \in Range(appended))
            => StoredLog[i].id # StoredLog[j].id

(* a document with the default in the place of every missing field *)
WithDefaults(doc) ==
    [k \in DOMAIN DefaultDoc |->
        IF k \in DOMAIN doc THEN doc[k] ELSE DefaultDoc[k]]

(* a load has returned, the call before it was a save that returned *)
LoadAfterSave ==
    /\ proc["c1"].op = "save" /\ proc["c1"].pc = "done" /\ ~proc["c1"].err
    /\ proc["c2"].op = "load" /\ LastCall("c2") /\ ~proc["c2"].err
    /\ proc["c2"].n = proc["c1"].n + 1

(* C20: a load that follows a successful save, with no writer in between,
   returns the document saved, with the defaults in the place of its
   missing fields, whatever the table held before the save. *)
C20_ReadYourWrites ==
    LoadAfterSave => proc["c2"].ret = WithDefaults(proc["c1"].arg)

====
